---- MODULE Spec2Model ----
(***************************************************************************)
(* Model of the 6502 instruction core in cpu.c: the flag accessors, the    *)
(* clock/dispatch engine cpu_clock, the implied addressing mode and the    *)
(* operation functions.  The CPU struct is the record `cpu`; the bus the   *)
(* CPU reads and writes through is `bus`.  The remaining variables are     *)
(* history variables that record what the last call did.                   *)
(***************************************************************************)
EXTENDS Integers, Sequences, FiniteSets, TLC

VARIABLES cpu, bus, busLog, trace, fetchTick, lastCall, ticks, last, nticks

vars == <<cpu, bus, busLog, trace, fetchTick, lastCall, ticks, last, nticks>>

\* Number of cpu_clock calls explored in one behaviour.
MaxTicks == 9

(***************************************************************************)
(* C integer arithmetic on unsigned char / unsigned short.                 *)
(***************************************************************************)
U8(n) ==
    n % 256

U16(n) ==
    n % 65536

RECURSIVE BitAnd(_, _)
BitAnd(m, n) ==
    IF m = 0 \/ n = 0 THEN 0
    ELSE (m % 2) * (n % 2) + 2 * BitAnd(m \div 2, n \div 2)

RECURSIVE BitOr(_, _)
BitOr(m, n) ==
    IF m = 0 THEN n
    ELSE IF n = 0 THEN m
    ELSE (IF (m % 2) + (n % 2) > 0 THEN 1 ELSE 0) + 2 * BitOr(m \div 2, n \div 2)

RECURSIVE BitXor(_, _)
BitXor(m, n) ==
    IF m = 0 THEN n
    ELSE IF n = 0 THEN m
    ELSE (((m % 2) + (n % 2)) % 2) + 2 * BitXor(m \div 2, n \div 2)

\* ~f of an 8-bit flag mask, as it acts on an unsigned char.
BitNot8(f) ==
    255 - f

(***************************************************************************)
(* STATUS_FLAG: one bit of the status register per flag.                   *)
(***************************************************************************)
C == \h01
Z == \h02
I == \h04
D == \h08
B == \h10
U == \h20
V == \h40
N == \h80

Flags == {C, Z, I, D, B, V, N}

StatusBits == Flags \cup {U}

(***************************************************************************)
(* The bus: a byte-addressable memory.  `bus` holds the bytes written so   *)
(* far; every other address still holds its byte of the loaded image.      *)
(***************************************************************************)
Segments ==
    << [at |-> \h2000, bytes |-> <<\h01, \hFF, \h80, \h00>>],
       [at |-> \h2100, bytes |-> <<\h7F>>],
       \* JSR $9000 ; JMP $9000
       [at |-> \h8000, bytes |-> <<\h20, \h00, \h90>>],
       [at |-> \h8010, bytes |-> <<\h4C, \h00, \h90, \h4C, \h00, \h20>>],
       \* BCC +5 ; BCS +5
       [at |-> \h8020, bytes |-> <<\h90, \h05>>],
       [at |-> \h8030, bytes |-> <<\hB0, \h05>>],
       \* ADC $2000 ; ADC $2001 ; ADC $2002 ; ADC $2003
       [at |-> \h8040, bytes |-> <<\h6D, \h00, \h20, \h6D, \h01, \h20,
                                   \h6D, \h02, \h20, \h6D, \h03, \h20>>],
       \* ADC $20FF,X ; ASL $20FF,X ; LDA $2000
       [at |-> \h8050, bytes |-> <<\h7D, \hFF, \h20, \h1E, \hFF, \h20,
                                   \hAD, \h00, \h20>>],
       \* NOP ; CLC ; SEC ; INX
       [at |-> \h8060, bytes |-> <<\hEA, \h18, \h38, \hE8>>],
       \* STA $2000 ; STX $2001 ; STY $2002
       [at |-> \h8070, bytes |-> <<\h8D, \h00, \h20, \h8E, \h01, \h20,
                                   \h8C, \h02, \h20>>],
       \* ASL A ; LSR A ; ROL A ; ROR A
       [at |-> \h8080, bytes |-> <<\h0A, \h4A, \h2A, \h6A>>],
       \* ROR $2000 ; ROL $2002 ; LSR $2001 ; ASL $2002
       [at |-> \h8090, bytes |-> <<\h6E, \h00, \h20, \h2E, \h02, \h20,
                                   \h4E, \h01, \h20, \h0E, \h02, \h20>>],
       \* CMP $2000 ; CPX $2003 ; CPY $2003
       [at |-> \h80A0, bytes |-> <<\hCD, \h00, \h20, \hEC, \h03, \h20,
                                   \hCC, \h03, \h20>>],
       \* EOR $2001 ; AND $2001 ; ORA $2002
       [at |-> \h80B0, bytes |-> <<\h4D, \h01, \h20, \h2D, \h01, \h20,
                                   \h0D, \h02, \h20>>],
       \* DEX ; INX ; DEY ; INY
       [at |-> \h80C0, bytes |-> <<\hCA, \hE8, \h88, \hC8>>],
       \* BCS +$20 (crosses into the next page)
       [at |-> \h80ED, bytes |-> <<\hB0, \h20>>],
       \* BCC +5 (crosses into the next page) ; BCS -3 (back over the page)
       [at |-> \h80FD, bytes |-> <<\h90, \h05, \h00, \hB0, \hFD>>],
       [at |-> \h9000, bytes |-> <<\hEA, \hEA>>],
       \* BCS +$20 (wraps past $FFFF) ; JSR $1234 (return address wraps)
       [at |-> \hFFF0, bytes |-> <<\hB0, \h20>>],
       [at |-> \hFFFD, bytes |-> <<\h20, \h34, \h12>>] >>

InSegment(seg, addr) ==
    addr >= seg.at /\ addr < seg.at + Len(seg.bytes)

SegmentByte(segs, addr) ==
    IF \E i \in 1..Len(segs) : InSegment(segs[i], addr)
    THEN LET i == CHOOSE j \in 1..Len(segs) : InSegment(segs[j], addr)
         IN segs[i].bytes[addr - segs[i].at + 1]
    ELSE 0

Image(addr) ==
    SegmentByte(Segments, addr)

bus_read(b, addr) ==
    IF addr \in DOMAIN b THEN b[addr] ELSE Image(addr)

bus_write(b, addr, byte) ==
    [k \in (DOMAIN b) \cup {addr} |-> IF k = addr THEN byte ELSE b[k]]

(***************************************************************************)
(* A machine state s is [cpu, bus, log, ret]: the CPU struct, the bus it   *)
(* points to, the bus calls issued so far in this call and the value the   *)
(* last function returned.                                                 *)
(***************************************************************************)
cpu_read(s, addr) ==
    bus_read(s.bus, addr)

\* The state after cpu_read(cpu, addr): the call is added to the log.
Logged(s, addr) ==
    [s EXCEPT !.log = Append(@, [op |-> "read", addr |-> addr,
                                  byte |-> bus_read(s.bus, addr)])]

cpu_write(s, addr, byte) ==
    [s EXCEPT !.bus = bus_write(@, addr, byte),
              !.log = Append(@, [op |-> "write", addr |-> addr, byte |-> byte])]

Return(s, r) ==
    [s EXCEPT !.ret = r]

cpu_getFlag(s, f) ==
    LET flagCheck == BitAnd(s.cpu.status, f)
    IN IF flagCheck > 0 THEN 1 ELSE 0

\* A setter that stores the flag mask itself instead of merging it.
cpu_setFlag_clobber(s, f, set) ==
    LET status == IF set THEN f ELSE BitAnd(s.cpu.status, BitNot8(f))
    IN [s EXCEPT !.cpu.status = status]

\* The new status byte is computed in a local and never stored in the CPU.
cpu_setFlag(s, f, set) ==
    LET status == IF set THEN BitOr(s.cpu.status, f)
                  ELSE BitAnd(s.cpu.status, BitNot8(f))
    IN s

(***************************************************************************)
(* The opcode table.  Entries follow the standard 6502 encoding for the    *)
(* instructions used by the image; every other byte is the illegal-opcode  *)
(* entry (XXX, implied, 2 cycles).                                         *)
(***************************************************************************)
Entry(name, mode, op, n) ==
    [name |-> name, addr_mode |-> mode, operate |-> op, cycles |-> n]

lookup(opcode) ==
    CASE opcode = \h0A -> Entry("ASL", "IMP", "ASL", 2)
      [] opcode = \h0D -> Entry("ORA", "ABS", "ORA", 4)
      [] opcode = \h0E -> Entry("ASL", "ABS", "ASL", 6)
      [] opcode = \h18 -> Entry("CLC", "IMP", "CLC", 2)
      [] opcode = \h1E -> Entry("ASL", "ABX", "ASL", 7)
      [] opcode = \h20 -> Entry("JSR", "ABS", "JSR", 6)
      [] opcode = \h2A -> Entry("ROL", "IMP", "ROL", 2)
      [] opcode = \h2D -> Entry("AND", "ABS", "AND", 4)
      [] opcode = \h2E -> Entry("ROL", "ABS", "ROL", 6)
      [] opcode = \h38 -> Entry("SEC", "IMP", "SEC", 2)
      [] opcode = \h4A -> Entry("LSR", "IMP", "LSR", 2)
      [] opcode = \h4C -> Entry("JMP", "ABS", "JMP", 3)
      [] opcode = \h4D -> Entry("EOR", "ABS", "EOR", 4)
      [] opcode = \h4E -> Entry("LSR", "ABS", "LSR", 6)
      [] opcode = \h6A -> Entry("ROR", "IMP", "ROR", 2)
      [] opcode = \h6D -> Entry("ADC", "ABS", "ADC", 4)
      [] opcode = \h6E -> Entry("ROR", "ABS", "ROR", 6)
      [] opcode = \h7D -> Entry("ADC", "ABX", "ADC", 4)
      [] opcode = \h88 -> Entry("DEY", "IMP", "DEY", 2)
      [] opcode = \h8C -> Entry("STY", "ABS", "STY", 4)
      [] opcode = \h8D -> Entry("STA", "ABS", "STA", 4)
      [] opcode = \h8E -> Entry("STX", "ABS", "STX", 4)
      [] opcode = \h90 -> Entry("BCC", "REL", "BCC", 2)
      [] opcode = \hAD -> Entry("LDA", "ABS", "LDA", 4)
      [] opcode = \hB0 -> Entry("BCS", "REL", "BCS", 2)
      [] opcode = \hC8 -> Entry("INY", "IMP", "INY", 2)
      [] opcode = \hCA -> Entry("DEX", "IMP", "DEX", 2)
      [] opcode = \hCC -> Entry("CPY", "ABS", "CPY", 4)
      [] opcode = \hCD -> Entry("CMP", "ABS", "CMP", 4)
      [] opcode = \hE8 -> Entry("INX", "IMP", "INX", 2)
      [] opcode = \hEC -> Entry("CPX", "ABS", "CPX", 4)
      [] opcode = \hEA -> Entry("NOP", "IMP", "NOP", 2)
      [] OTHER -> Entry("???", "IMP", "XXX", 2)

cpu_fetch(s) ==
    IF lookup(s.cpu.opcode).addr_mode # "IMP"
    THEN [Logged(s, s.cpu.addr_abs) EXCEPT
              !.cpu.fetched = cpu_read(s, s.cpu.addr_abs)]
    ELSE s

(***************************************************************************)
(* Addressing modes.                                                       *)
(***************************************************************************)
IMP(s) ==
    Return([s EXCEPT !.cpu.fetched = s.cpu.a], 0)

\* Relative: one signed operand byte, sign-extended to 16 bits.
REL(s) ==
    LET SignExtend(rel) ==
            IF BitAnd(rel, \h80) # 0 THEN BitOr(rel, \hFF00) ELSE rel
    IN Return([Logged(s, s.cpu.pc) EXCEPT
                   !.cpu.addr_rel = SignExtend(cpu_read(s, s.cpu.pc)),
                   !.cpu.pc = U16(@ + 1)], 0)

\* Absolute: two operand bytes, low byte first.
ABS(s) ==
    LET Resolve(lo, hi) ==
            [Logged(Logged(s, s.cpu.pc), U16(s.cpu.pc + 1)) EXCEPT
                 !.cpu.addr_abs = hi * 256 + lo,
                 !.cpu.pc = U16(@ + 2)]
    IN Return(Resolve(cpu_read(s, s.cpu.pc), cpu_read(s, U16(s.cpu.pc + 1))), 0)

\* Absolute,X: as absolute plus X; 1 iff the addition changes the high byte.
ABX(s) ==
    LET Resolve(lo, hi) ==
            Return([Logged(Logged(s, s.cpu.pc), U16(s.cpu.pc + 1)) EXCEPT
                        !.cpu.addr_abs = U16(hi * 256 + lo + s.cpu.x),
                        !.cpu.pc = U16(@ + 2)],
                   IF U16(hi * 256 + lo + s.cpu.x) \div 256 # hi THEN 1 ELSE 0)
    IN Resolve(cpu_read(s, s.cpu.pc), cpu_read(s, U16(s.cpu.pc + 1)))

AddrMode(mode, s) ==
    CASE mode = "IMP" -> IMP(s)
      [] mode = "REL" -> REL(s)
      [] mode = "ABS" -> ABS(s)
      [] mode = "ABX" -> ABX(s)

(***************************************************************************)
(* Operations.  Each LET step is one statement of the C function, applied  *)
(* to the state the statement before it left.                              *)
(***************************************************************************)
\* Bit 7 of a byte, as the bool the flag setter receives.
Bit7(byte) ==
    BitAnd(byte, \h80) # 0

ADC(s) ==
    LET Result(t) == U8(t.cpu.a + t.cpu.fetched + cpu_getFlag(t, C))
        SetV(t) == cpu_setFlag(t, V, BitAnd(t.cpu.a, \h80) # BitAnd(Result(t), \h80))
        SetN(t) == cpu_setFlag(t, N, Bit7(t.cpu.a))
        \* N and V are written before Z, none of them touches a or fetched.
        SetZ(t) == cpu_setFlag(t, Z, Result(t) = 0)
    IN Return(SetZ(SetN(SetV(cpu_fetch(s)))), 1)

AND(s) ==
    LET Combine(t) == [t EXCEPT !.cpu.a = BitAnd(t.cpu.a, t.cpu.fetched)]
        SetN(t) == cpu_setFlag(t, N, Bit7(t.cpu.a))
        SetZ(t) == cpu_setFlag(t, Z, t.cpu.a = 0)
    IN Return(SetZ(SetN(Combine(cpu_fetch(s)))), 1)

ASL(s) ==
    LET SetC(t) == cpu_setFlag(t, C, Bit7(t.cpu.fetched))
        Shift(t) == [t EXCEPT !.cpu.fetched = BitAnd(U8(@ * 2), \hFE)]
        SetN(t) == cpu_setFlag(t, N, Bit7(t.cpu.fetched))
        SetZ(t) == cpu_setFlag(t, Z, t.cpu.fetched = 0)
    IN Return(SetZ(SetN(Shift(SetC(cpu_fetch(s))))), 0)

\* The branch body shared by the text of BCC and BCS (lines 177-184 and
\* 199-206): the comparison on lines 180 and 202 is written "1=" and is
\* read as "!=".
Branch(s) ==
    LET AddCycle(t) == [t EXCEPT !.cpu.cycles = @ + 1]
        Target(t) == [t EXCEPT !.cpu.addr_abs = U16(t.cpu.pc + t.cpu.addr_rel)]
        PageCycle(t) ==
            IF BitAnd(t.cpu.addr_abs, \hFF00) # BitAnd(t.cpu.pc, \hFF00)
            THEN [t EXCEPT !.cpu.cycles = @ + 1]
            ELSE t
        Jump(t) == [t EXCEPT !.cpu.pc = t.cpu.addr_abs]
    IN Jump(PageCycle(Target(AddCycle(s))))

BCC(s) ==
    Return(IF cpu_getFlag(s, C) = 1 THEN Branch(s) ELSE s, 0)

\* A branch that charges no cycle for crossing a page.
BCS_nopage(s) ==
    Return(IF cpu_getFlag(s, C) = 1
           THEN [s EXCEPT !.cpu.cycles = @ + 1,
                          !.cpu.addr_abs = U16(s.cpu.pc + s.cpu.addr_rel),
                          !.cpu.pc = U16(s.cpu.pc + s.cpu.addr_rel)]
           ELSE s, 0)

BCS(s) ==
    Return(IF cpu_getFlag(s, C) = 1 THEN Branch(s) ELSE s, 0)

CLC(s) ==
    Return(cpu_setFlag(s, C, FALSE), 0)

\* The flag writes of the three compares, on register value r.
Compare(t, r) ==
    LET Result(u) == U8(r - u.cpu.fetched)
        SetN(u) == cpu_setFlag(u, N, Bit7(Result(u)))
        SetC(u) == cpu_setFlag(u, C, r >= u.cpu.fetched)
        SetZ(u) == cpu_setFlag(u, Z, Result(u) = 0)
    IN SetZ(SetC(SetN(t)))

CMP(s) ==
    LET Cmp(t) == Compare(t, t.cpu.a)
    IN Return(Cmp(cpu_fetch(s)), 1)

CPX(s) ==
    LET Cmp(t) == Compare(t, t.cpu.x)
    IN Return(Cmp(cpu_fetch(s)), 0)

CPY(s) ==
    LET Cmp(t) == Compare(t, t.cpu.y)
    IN Return(Cmp(cpu_fetch(s)), 0)

DEX(s) ==
    LET Dec(t) == [t EXCEPT !.cpu.x = U8(@ - 1)]
        SetN(t) == cpu_setFlag(t, N, Bit7(t.cpu.x))
        SetZ(t) == cpu_setFlag(t, Z, t.cpu.x = 0)
    IN Return(SetZ(SetN(Dec(s))), 0)

DEY(s) ==
    LET Dec(t) == [t EXCEPT !.cpu.y = U8(@ - 1)]
        SetN(t) == cpu_setFlag(t, N, Bit7(t.cpu.y))
        SetZ(t) == cpu_setFlag(t, Z, t.cpu.y = 0)
    IN Return(SetZ(SetN(Dec(s))), 0)

\* EOR does not call cpu_fetch: it combines a with whatever fetched holds.
EOR(s) ==
    LET Combine(t) == [t EXCEPT !.cpu.a = BitXor(t.cpu.a, t.cpu.fetched)]
        SetN(t) == cpu_setFlag(t, N, Bit7(t.cpu.a))
        SetZ(t) == cpu_setFlag(t, Z, t.cpu.a = 0)
    IN Return(SetZ(SetN(Combine(s))), 1)

\* An increment computed in an int and stored without the 8-bit wrap.
INX_nowrap(s) ==
    LET Inc(t) == [t EXCEPT !.cpu.x = @ + 1]
        SetN(t) == cpu_setFlag(t, N, Bit7(t.cpu.x))
        SetZ(t) == cpu_setFlag(t, Z, t.cpu.x = 0)
    IN Return(SetZ(SetN(Inc(s))), 0)

INX(s) ==
    LET Inc(t) == [t EXCEPT !.cpu.x = U8(@ + 1)]
        SetN(t) == cpu_setFlag(t, N, Bit7(t.cpu.x))
        SetZ(t) == cpu_setFlag(t, Z, t.cpu.x = 0)
    IN Return(SetZ(SetN(Inc(s))), 0)

INY(s) ==
    LET Inc(t) == [t EXCEPT !.cpu.y = U8(@ + 1)]
        SetN(t) == cpu_setFlag(t, N, Bit7(t.cpu.y))
        SetZ(t) == cpu_setFlag(t, Z, t.cpu.y = 0)
    IN Return(SetZ(SetN(Inc(s))), 0)

JMP(s) ==
    LET Jump(t) == [t EXCEPT !.cpu.pc = t.cpu.fetched]
    IN Return(Jump(cpu_fetch(s)), 0)

\* A JSR that pushes the low byte first.
JSR_lowfirst(s) ==
    LET progCounter == U16(s.cpu.pc - 1)
        Push(t, byte) ==
            [cpu_write(t, \h0100 + t.cpu.stkp, byte) EXCEPT !.cpu.stkp = U8(@ - 1)]
        Jump(t) == [t EXCEPT !.cpu.pc = t.cpu.addr_abs]
    IN Return(Jump(Push(Push(s, BitAnd(progCounter, \h00FF)),
                        BitAnd(progCounter \div 256, \h00FF))), 0)

JSR(s) ==
    LET progCounter == U16(s.cpu.pc - 1)
        \* One cpu_write to the stack page and the stkp decrement after it.
        Push(t, byte) ==
            [cpu_write(t, \h0100 + t.cpu.stkp, byte) EXCEPT !.cpu.stkp = U8(@ - 1)]
        Jump(t) == [t EXCEPT !.cpu.pc = t.cpu.addr_abs]
    IN Return(Jump(Push(Push(s, BitAnd(progCounter \div 256, \h00FF)),
                        BitAnd(progCounter, \h00FF))), 0)

LDA(s) ==
    LET Load(t) == [t EXCEPT !.cpu.a = t.cpu.fetched]
        SetN(t) == cpu_setFlag(t, N, Bit7(t.cpu.a))
        SetZ(t) == cpu_setFlag(t, Z, t.cpu.a = 0)
    IN Return(SetZ(SetN(Load(cpu_fetch(s)))), 1)

LSR(s) ==
    LET ClearN(t) == cpu_setFlag(t, N, FALSE)
        SetC(t) == cpu_setFlag(t, C, BitAnd(t.cpu.fetched, \h01) # 0)
        Shift(t) == [t EXCEPT !.cpu.fetched = BitAnd(@ \div 2, \h7F)]
        SetZ(t) == cpu_setFlag(t, Z, t.cpu.fetched = 0)
    IN Return(SetZ(Shift(SetC(ClearN(cpu_fetch(s))))), 0)

\* A no-op that asks for an extra cycle.
NOP_extra(s) ==
    Return(s, 1)

NOP(s) ==
    Return(s, 0)

ORA(s) ==
    LET Combine(t) == [t EXCEPT !.cpu.a = BitOr(t.cpu.a, t.cpu.fetched)]
        SetN(t) == cpu_setFlag(t, N, Bit7(t.cpu.a))
        SetZ(t) == cpu_setFlag(t, Z, t.cpu.a = 0)
    IN Return(SetZ(SetN(Combine(cpu_fetch(s)))), 1)

\* The flag writes that end ROL and ROR; rotator is the bit shifted out,
\* taken from the operand before it was rotated.
RotateFlags(t, rotator) ==
    LET SetC(u) == cpu_setFlag(u, C, rotator # 0)
        SetN(u) == cpu_setFlag(u, N, Bit7(u.cpu.fetched))
        SetZ(u) == cpu_setFlag(u, Z, u.cpu.fetched = 0)
    IN SetZ(SetN(SetC(t)))

ROL(s) ==
    LET Shift(t) == [t EXCEPT !.cpu.fetched = BitAnd(U8(@ * 2), \hFE)]
        Carry(t) == [t EXCEPT !.cpu.fetched = BitOr(@, cpu_getFlag(t, C))]
        Rotate(t) == RotateFlags(Carry(Shift(t)), BitAnd(t.cpu.fetched, \h80))
    IN Return(Rotate(cpu_fetch(s)), 0)

\* Line 566 ors the carry into bit 0, as ROL does, not into bit 7.
ROR(s) ==
    LET Shift(t) == [t EXCEPT !.cpu.fetched = BitAnd(@ \div 2, \h7F)]
        Carry(t) == [t EXCEPT !.cpu.fetched = BitOr(@, cpu_getFlag(t, C))]
        Rotate(t) == RotateFlags(Carry(Shift(t)), BitAnd(t.cpu.fetched, \h01))
    IN Return(Rotate(cpu_fetch(s)), 0)

SEC(s) ==
    Return(cpu_setFlag(s, C, TRUE), 0)

\* A store that writes the register to the resolved address.
STA_write(s) ==
    Return([cpu_write(s, s.cpu.addr_abs, s.cpu.a) EXCEPT !.cpu.fetched = s.cpu.a], 1)

STA(s) ==
    Return([s EXCEPT !.cpu.fetched = s.cpu.a], 1)

STX(s) ==
    Return([s EXCEPT !.cpu.fetched = s.cpu.x], 1)

STY(s) ==
    Return([s EXCEPT !.cpu.fetched = s.cpu.y], 1)

XXX(s) ==
    Return(s, 0)

Operate(op, s) ==
    CASE op = "ADC" -> ADC(s)
      [] op = "AND" -> AND(s)
      [] op = "ASL" -> ASL(s)
      [] op = "BCC" -> BCC(s)
      [] op = "BCS" -> BCS(s)
      [] op = "CLC" -> CLC(s)
      [] op = "CMP" -> CMP(s)
      [] op = "CPX" -> CPX(s)
      [] op = "CPY" -> CPY(s)
      [] op = "DEX" -> DEX(s)
      [] op = "DEY" -> DEY(s)
      [] op = "EOR" -> EOR(s)
      [] op = "INX" -> INX(s)
      [] op = "INY" -> INY(s)
      [] op = "JMP" -> JMP(s)
      [] op = "JSR" -> JSR(s)
      [] op = "LDA" -> LDA(s)
      [] op = "LSR" -> LSR(s)
      [] op = "NOP" -> NOP(s)
      [] op = "ORA" -> ORA(s)
      [] op = "ROL" -> ROL(s)
      [] op = "ROR" -> ROR(s)
      [] op = "SEC" -> SEC(s)
      [] op = "STA" -> STA(s)
      [] op = "STX" -> STX(s)
      [] op = "STY" -> STY(s)
      [] op = "XXX" -> XXX(s)

(***************************************************************************)
(* cpu_clock.                                                              *)
(***************************************************************************)
\* Lines 28-31: read the opcode at pc, advance pc, load the base count.
ClockLoad(s) ==
    LET Load(opcode) ==
            [Logged(s, s.cpu.pc) EXCEPT
                 !.cpu.opcode = opcode,
                 !.cpu.pc = U16(@ + 1),
                 !.cpu.cycles = lookup(opcode).cycles]
    IN Load(cpu_read(s, s.cpu.pc))

\* Line 37: the entry's addressing-mode function, on the loaded state.
ClockMode(s) ==
    LET Mode(t) == AddrMode(lookup(t.cpu.opcode).addr_mode, t)
    IN Mode(ClockLoad(s))

\* Line 38: the entry's operation function, after the addressing mode.
ClockOperate(s) ==
    LET Op(t) == Operate(lookup(t.cpu.opcode).operate, t)
    IN Op(ClockMode(s))

\* A clock that adds the extra cycle when either function asks for it.
cpu_clock_or(s) ==
    LET Extra(t, cycleCheck1) ==
            [t EXCEPT !.cpu.cycles = @ + BitOr(cycleCheck1, t.ret)]
        Dispatch(t) == Extra(Operate(lookup(t.cpu.opcode).operate, t), t.ret)
        Decrement(t) == [t EXCEPT !.cpu.cycles = @ - 1]
    IN Decrement(IF s.cpu.cycles = 0 THEN Dispatch(ClockMode(s)) ELSE s)

\* A clock that counts down only on the ticks that fetch nothing.
cpu_clock_nodec(s) ==
    LET Extra(t, cycleCheck1) ==
            [t EXCEPT !.cpu.cycles = @ + BitAnd(cycleCheck1, t.ret)]
        Dispatch(t) == Extra(Operate(lookup(t.cpu.opcode).operate, t), t.ret)
        Decrement(t) == [t EXCEPT !.cpu.cycles = @ - 1]
    IN IF s.cpu.cycles = 0 THEN Dispatch(ClockMode(s)) ELSE Decrement(s)

\* A clock that fetches the next opcode one tick early.
cpu_clock_early(s) ==
    LET Extra(t, cycleCheck1) ==
            [t EXCEPT !.cpu.cycles = @ + BitAnd(cycleCheck1, t.ret)]
        Dispatch(t) == Extra(Operate(lookup(t.cpu.opcode).operate, t), t.ret)
        Decrement(t) == [t EXCEPT !.cpu.cycles = @ - 1]
    IN Decrement(IF s.cpu.cycles <= 1 THEN Dispatch(ClockMode(s)) ELSE s)

\* A clock that advances pc on every tick, not only on the ticks that fetch.
cpu_clock_pcinc(s) ==
    LET Extra(t, cycleCheck1) ==
            [t EXCEPT !.cpu.cycles = @ + BitAnd(cycleCheck1, t.ret)]
        Dispatch(t) == Extra(Operate(lookup(t.cpu.opcode).operate, t), t.ret)
        Decrement(t) == [t EXCEPT !.cpu.cycles = @ - 1]
    IN Decrement(IF s.cpu.cycles = 0
                 THEN Dispatch(ClockMode(s))
                 ELSE [s EXCEPT !.cpu.pc = U16(@ + 1)])

\* cycles is kept as a plain integer: its C type is declared in cpu.h, and with
\* base counts of at least 1 the counter stays between 0 and 8, so no width applies.
cpu_clock(s) ==
    LET \* Line 40, on the state the operation left (t.ret is cycleCheck2).
        Extra(t, cycleCheck1) ==
            [t EXCEPT !.cpu.cycles = @ + BitAnd(cycleCheck1, t.ret)]
        \* Line 38, on the state the addressing mode left (t.ret is cycleCheck1).
        Dispatch(t) == Extra(Operate(lookup(t.cpu.opcode).operate, t), t.ret)
        Decrement(t) == [t EXCEPT !.cpu.cycles = @ - 1]
    IN Decrement(IF s.cpu.cycles = 0 THEN Dispatch(ClockMode(s)) ELSE s)

(***************************************************************************)
(* The state machine: the callers of the engine interface.                 *)
(***************************************************************************)
StartPCs ==
    {\h8000, \h8010, \h8013, \h8020, \h8030, \h8040, \h8043, \h8046, \h8049,
     \h8050, \h8053, \h8060, \h8070, \h8080, \h8090, \h8096, \h80A0, \h80B0,
     \h80C0, \h80ED, \h80FD, \h8100, \hFFF0, \hFFFD}

StartA == {\h00, \h7F, \hFF}

StartX == {\h00, \h01}

StartSP == {\hFD, \h00, \h01}

StartStatus == {\h00, \h01, \hC2}

Machine ==
    [cpu |-> cpu, bus |-> bus, log |-> <<>>, ret |-> 0]

\* History of the instruction in flight: the machine state handed to the
\* addressing mode, to the operation, and the one the operation left, with
\* the names of the two functions in the order they were called.
NoTrace ==
    [loaded |-> Machine, pre |-> Machine, post |-> Machine, calls |-> << >>]

\* The cycles an instruction added to its base count: those its operation
\* added itself and the one cpu_clock adds for the two return values.
ExtraCycles(tr) ==
    (tr.post.cpu.cycles - tr.pre.cpu.cycles)
        + (IF tr.pre.ret = 1 /\ tr.post.ret = 1 THEN 1 ELSE 0)

Init ==
    /\ \E pc0 \in StartPCs, a0 \in StartA, x0 \in StartX,
          sp0 \in StartSP, st0 \in StartStatus :
          cpu = [a |-> a0, x |-> x0, y |-> 0, stkp |-> sp0, pc |-> pc0,
                 status |-> st0, fetched |-> 0, addr_abs |-> 0, addr_rel |-> 0,
                 opcode |-> 0, cycles |-> 0]
    /\ bus = << >>
    /\ busLog = << >>
    /\ trace = NoTrace
    /\ fetchTick = FALSE
    /\ lastCall = [fn |-> "none", f |-> 0, set |-> FALSE]
    /\ ticks = 0
    /\ last = [opcode |-> 0, ticks |-> 0, extra |-> 0]
    /\ nticks = 0

\* One call of cpu_clock.  A tick that issued bus calls is a tick that
\* fetched an opcode: the read of the opcode is its first bus call.
Clock ==
    /\ nticks < MaxTicks
    /\ LET Observe(s) ==
               /\ cpu' = s.cpu
               /\ bus' = s.bus
               /\ busLog' = s.log
               /\ fetchTick' = (s.log # << >>)
               /\ ticks' = IF s.log # << >> THEN 1 ELSE ticks + 1
               /\ last' = IF s.log # << >>
                          THEN [opcode |-> cpu.opcode, ticks |-> ticks,
                                extra |-> ExtraCycles(trace)]
                          ELSE last
               /\ trace' = IF s.log # << >>
                           THEN [loaded |-> ClockLoad(Machine),
                                 pre |-> ClockMode(Machine),
                                 post |-> ClockOperate(Machine),
                                 calls |-> << lookup(s.cpu.opcode).addr_mode,
                                              lookup(s.cpu.opcode).operate >>]
                           ELSE trace
       IN Observe(cpu_clock(Machine))
    /\ lastCall' = [fn |-> "cpu_clock", f |-> 0, set |-> FALSE]
    /\ nticks' = nticks + 1

\* One call of cpu_setFlag(cpu, f, set) from outside the engine.
SetFlag ==
    \E f \in Flags, set \in BOOLEAN :
        /\ LET s == cpu_setFlag(Machine, f, set)
           IN /\ cpu' = s.cpu
              /\ bus' = s.bus
              /\ busLog' = s.log
        /\ fetchTick' = FALSE
        /\ lastCall' = [fn |-> "cpu_setFlag", f |-> f, set |-> set]
        /\ UNCHANGED <<trace, ticks, last, nticks>>

Next ==
    Clock

Spec ==
    Init /\ [][Next]_vars

\* The flag accessors on their own: every status byte, any run of setter calls.
InitFlag ==
    /\ \E st0 \in 0..255 :
          cpu = [a |-> \h7F, x |-> \h01, y |-> \h02, stkp |-> \hFD, pc |-> \h8000,
                 status |-> st0, fetched |-> 0, addr_abs |-> 0, addr_rel |-> 0,
                 opcode |-> 0, cycles |-> 0]
    /\ bus = << >>
    /\ busLog = << >>
    /\ trace = NoTrace
    /\ fetchTick = FALSE
    /\ lastCall = [fn |-> "none", f |-> 0, set |-> FALSE]
    /\ ticks = 0
    /\ last = [opcode |-> 0, ticks |-> 0, extra |-> 0]
    /\ nticks = 0

NextFlag ==
    SetFlag

SpecFlag ==
    InitFlag /\ [][NextFlag]_vars

(***************************************************************************)
(* Properties.                                                             *)
(***************************************************************************)
\* The instruction fetched by the last tick ran operation op.
Ran(op) ==
    fetchTick /\ Len(trace.calls) = 2 /\ trace.calls[2] = op

\* The fields of the CPU other than the status byte.
Registers(c) ==
    [c EXCEPT !.status = 0]

\* C1: after cpu_setFlag(cpu, f, true) cpu_getFlag(cpu, f) returns 1, and after
\* cpu_setFlag(cpu, f, false) it returns 0, for every flag and status byte.
C1_SetFlagThenGetFlag ==
    lastCall.fn = "cpu_setFlag" =>
        cpu_getFlag(Machine, lastCall.f) = (IF lastCall.set THEN 1 ELSE 0)

\* C2: cpu_setFlag(cpu, f, v) changes at most the status bit f: every other
\* status bit reads as before, and no register, pc, stkp, cycles or memory
\* byte changes; the call issues no bus call.
C2_SetFlagFrame ==
    [][lastCall'.fn = "cpu_setFlag" =>
          /\ \A g \in StatusBits \ {lastCall'.f} :
                 cpu_getFlag(Machine, g)' = cpu_getFlag(Machine, g)
          /\ Registers(cpu') = Registers(cpu)
          /\ bus' = bus
          /\ busLog' = << >>]_vars

C2_Witness ==
    /\ lastCall = [fn |-> "cpu_setFlag", f |-> Z, set |-> TRUE]
    /\ cpu.status = \hC1

\* C3: from cycles = 0, with every table entry's base count at least 1, cycles
\* is never negative after a tick, every tick decrements it exactly once (from
\* its old value, or from the count the fetch loaded), and memory is read only
\* on a tick that starts with cycles = 0.
C3_CyclesCountDown ==
    [][nticks' = nticks + 1 =>
          /\ cpu'.cycles >= 0
          /\ cpu.cycles > 0 => cpu'.cycles = cpu.cycles - 1
          /\ cpu.cycles = 0 =>
                 cpu'.cycles = lookup(cpu'.opcode).cycles + ExtraCycles(trace') - 1
          /\ busLog' # << >> =>
                 /\ cpu.cycles = 0
                 /\ busLog'[1] = [op |-> "read", addr |-> cpu.pc,
                                  byte |-> cpu'.opcode]]_vars

C3_Witness ==
    /\ nticks >= 3
    /\ ~fetchTick
    /\ cpu.cycles = 0
    /\ ticks = lookup(cpu.opcode).cycles

\* C4: an instruction takes exactly its base count plus the extra cycles added
\* for it, and so never fewer ticks than its base count, from the tick that
\* fetches it to the tick that fetches the next one.
C4_TicksPerInstruction ==
    (fetchTick /\ last.ticks > 0) =>
        /\ last.ticks = lookup(last.opcode).cycles + last.extra
        /\ last.ticks >= lookup(last.opcode).cycles

C4_Witness ==
    /\ fetchTick
    /\ last.opcode = \hB0
    /\ last.extra = 2
    /\ last.ticks = 4

\* C5: a tick that starts with cycles = 0 sets opcode to the byte at pc, hands
\* the addressing mode a state with pc advanced by 1 and cycles at the base
\* count, hands the operation the state the addressing mode left, and adds one
\* cycle iff both returned 1, before the final decrement.
C5_FetchTick ==
    [][(nticks' = nticks + 1 /\ cpu.cycles = 0) =>
          /\ cpu'.opcode = bus_read(bus, cpu.pc)
          /\ trace'.loaded.cpu =
                 [cpu EXCEPT !.opcode = bus_read(bus, cpu.pc),
                             !.pc = U16(cpu.pc + 1),
                             !.cycles = lookup(bus_read(bus, cpu.pc)).cycles]
          /\ trace'.calls = << lookup(cpu'.opcode).addr_mode,
                               lookup(cpu'.opcode).operate >>
          /\ trace'.pre = AddrMode(trace'.calls[1], trace'.loaded)
          /\ trace'.post = Operate(trace'.calls[2], trace'.pre)
          /\ cpu' = [trace'.post.cpu EXCEPT
                         !.cycles = @ - 1 + (IF trace'.pre.ret = 1 /\ trace'.post.ret = 1
                                             THEN 1 ELSE 0)]
          /\ bus' = trace'.post.bus
          /\ busLog' = trace'.post.log]_vars

C5_Witness ==
    /\ fetchTick
    /\ trace.pre.ret = 1
    /\ trace.post.ret = 1
    /\ cpu.cycles = lookup(cpu.opcode).cycles

\* The state a taken branch leaves, from the state t the operation received.
BranchTaken(t, after) ==
    LET target == (t.cpu.pc + t.cpu.addr_rel) % 65536
        cross == (target \div 256) # (t.cpu.pc \div 256)
    IN /\ after.addr_abs = target
       /\ after.pc = target
       /\ after.cycles = t.cpu.cycles + 1 + (IF cross THEN 1 ELSE 0)

\* C6: BCC with the carry flag clear takes the branch (one more cycle, a
\* further one across a page, pc = addr_abs = pc + addr_rel); BCC with the
\* carry flag set adds no cycle and leaves pc unchanged.
C6_BCC ==
    Ran("BCC") =>
        IF cpu_getFlag(trace.pre, C) = 0
        THEN BranchTaken(trace.pre, trace.post.cpu)
        ELSE /\ trace.post.cpu.cycles = trace.pre.cpu.cycles
             /\ trace.post.cpu.pc = trace.pre.cpu.pc

\* C7: BCS with the carry flag set adds 1 to cycles, sets addr_abs to
\* (pc + addr_rel) mod 65536, adds a further cycle iff addr_abs and the
\* un-displaced pc differ in their high byte, and sets pc = addr_abs; with the
\* carry flag clear it adds no cycle and leaves pc and addr_abs unchanged.
C7_BCS ==
    Ran("BCS") =>
        /\ IF cpu_getFlag(trace.pre, C) = 1
           THEN BranchTaken(trace.pre, trace.post.cpu)
           ELSE /\ trace.post.cpu.cycles = trace.pre.cpu.cycles
                /\ trace.post.cpu.pc = trace.pre.cpu.pc
                /\ trace.post.cpu.addr_abs = trace.pre.cpu.addr_abs
        /\ cpu.pc = trace.post.cpu.pc

C7_Witness ==
    /\ Ran("BCS")
    /\ cpu_getFlag(trace.pre, C) = 1
    /\ trace.pre.cpu.pc = \hFFF2
    /\ cpu.pc = \h0012
    /\ cpu.cycles = 3

\* C8: JSR writes the high byte of (pc - 1) mod 65536 to 0x0100 + stkp, then
\* the low byte to 0x0100 + (stkp - 1) mod 256, leaves stkp = (stkp - 2) mod 256
\* and sets pc = addr_abs.
C8_JSR ==
    Ran("JSR") =>
        LET t == trace.pre.cpu
            ret == (t.pc + 65535) % 65536
            n == Len(busLog)
        IN /\ n >= 2
           /\ busLog[n - 1] = [op |-> "write", addr |-> 256 + t.stkp,
                               byte |-> ret \div 256]
           /\ busLog[n] = [op |-> "write", addr |-> 256 + ((t.stkp + 255) % 256),
                           byte |-> ret % 256]
           /\ \A i \in 1..(n - 2) : busLog[i].op = "read"
           /\ bus_read(bus, 256 + t.stkp) = ret \div 256
           /\ bus_read(bus, 256 + ((t.stkp + 255) % 256)) = ret % 256
           /\ cpu.stkp = (t.stkp + 254) % 256
           /\ cpu.pc = t.addr_abs

\* The example of the specification: pc = 0x8003, addr_abs = 0x9000, stkp = 0xFD.
C8_Witness ==
    /\ Ran("JSR")
    /\ trace.pre.cpu.pc = \h8003
    /\ trace.pre.cpu.addr_abs = \h9000
    /\ trace.pre.cpu.stkp = \hFD
    /\ bus_read(bus, \h01FD) = \h80
    /\ bus_read(bus, \h01FC) = \h02
    /\ cpu.stkp = \hFB
    /\ cpu.pc = \h9000

\* C9: after JMP, pc equals the 16-bit resolved address addr_abs.
C9_JMP ==
    Ran("JMP") => cpu.pc = trace.pre.cpu.addr_abs

\* C10: ADC leaves (A + fetched + carry-in) mod 256 in the accumulator and sets
\* C iff the sum exceeds 255, V iff A and fetched agree in sign and the result
\* differs, N iff bit 7 of the result is set, Z iff the result is 0.
C10_ADC ==
    Ran("ADC") =>
        LET acc == trace.pre.cpu.a
            m == bus_read(trace.pre.bus, trace.pre.cpu.addr_abs)
            sum == acc + m + cpu_getFlag(trace.pre, C)
            result == sum % 256
        IN /\ cpu.a = result
           /\ cpu_getFlag(Machine, C) = (IF sum > 255 THEN 1 ELSE 0)
           /\ cpu_getFlag(Machine, V) =
                  (IF (acc \div 128 = m \div 128) /\ (result \div 128 # acc \div 128)
                   THEN 1 ELSE 0)
           /\ cpu_getFlag(Machine, N) = result \div 128
           /\ cpu_getFlag(Machine, Z) = (IF result = 0 THEN 1 ELSE 0)

\* The last fetch called addressing mode `mode` and then operation `op`; holds
\* until the next fetch.
InFlight(mode, op) ==
    trace.calls = << mode, op >>

\* The operand the addressing mode resolved for the instruction in flight: the
\* accumulator when implied, else the memory byte at addr_abs.
Operand ==
    IF trace.calls[1] = "IMP"
    THEN trace.pre.cpu.a
    ELSE bus_read(trace.pre.bus, trace.pre.cpu.addr_abs)

\* C11: after STA, STX or STY with resolved address addr_abs the memory byte at
\* addr_abs equals A, X or Y respectively, and that register is unchanged.
C11_Store ==
    /\ Ran("STA") => /\ bus_read(bus, trace.pre.cpu.addr_abs) = trace.pre.cpu.a
                     /\ cpu.a = trace.pre.cpu.a
    /\ Ran("STX") => /\ bus_read(bus, trace.pre.cpu.addr_abs) = trace.pre.cpu.x
                     /\ cpu.x = trace.pre.cpu.x
    /\ Ran("STY") => /\ bus_read(bus, trace.pre.cpu.addr_abs) = trace.pre.cpu.y
                     /\ cpu.y = trace.pre.cpu.y

\* C12: after ASL, LSR, ROL or ROR the shifted or rotated result is stored where
\* the addressing mode resolved: in A when implied, else in memory at addr_abs.
C12_ShiftWriteBack ==
    (\E op \in {"ASL", "LSR", "ROL", "ROR"} : Ran(op)) =>
        IF trace.calls[1] = "IMP"
        THEN cpu.a = trace.post.cpu.fetched
        ELSE bus_read(bus, trace.pre.cpu.addr_abs) = trace.post.cpu.fetched

\* C13: for operand v and previous carry c, ROL computes ((v << 1) mod 256) | c
\* with carry-out bit 7 of v, ROR computes (v >> 1) | (c << 7) with carry-out
\* bit 0 of v, ASL computes (v << 1) mod 256 with carry-out bit 7 of v, and LSR
\* computes v >> 1 with carry-out bit 0 of v.
C13_ShiftRotate ==
    LET v == Operand
        c == cpu_getFlag(trace.pre, C)
        Is(result, carryOut) ==
            /\ cpu.fetched = result
            /\ cpu_getFlag(Machine, C) = carryOut
    IN /\ Ran("ROL") => Is(((v * 2) % 256) + c, v \div 128)
       /\ Ran("ROR") => Is((v \div 2) + 128 * c, v % 2)
       /\ Ran("ASL") => Is((v * 2) % 256, v \div 128)
       /\ Ran("LSR") => Is(v \div 2, v % 2)

\* The flags a compare of register value r with operand m must leave.
Compared(r, m) ==
    /\ cpu_getFlag(Machine, C) = (IF r >= m THEN 1 ELSE 0)
    /\ cpu_getFlag(Machine, Z) = (IF r = m THEN 1 ELSE 0)
    /\ cpu_getFlag(Machine, N) = ((r - m + 256) % 256) \div 128

\* C14: CMP, CPX and CPY leave A, X and Y unchanged and set C iff r >= m, Z iff
\* r = m and N iff bit 7 of (r - m) mod 256 is set, r being A, X or Y.
C14_Compare ==
    /\ (Ran("CMP") \/ Ran("CPX") \/ Ran("CPY")) =>
           /\ cpu.a = trace.pre.cpu.a
           /\ cpu.x = trace.pre.cpu.x
           /\ cpu.y = trace.pre.cpu.y
    /\ Ran("CMP") => Compared(trace.pre.cpu.a, Operand)
    /\ Ran("CPX") => Compared(trace.pre.cpu.x, Operand)
    /\ Ran("CPY") => Compared(trace.pre.cpu.y, Operand)

\* C15: AND, ORA and EOR with a non-implied addressing mode leave in the
\* accumulator the old A combined with the memory byte at addr_abs, whatever
\* fetched held from an earlier instruction.
C15_Logical ==
    LET m == bus_read(trace.pre.bus, trace.pre.cpu.addr_abs)
    IN /\ (Ran("AND") /\ trace.calls[1] # "IMP") =>
              cpu.a = BitAnd(trace.pre.cpu.a, m)
       /\ (Ran("ORA") /\ trace.calls[1] # "IMP") =>
              cpu.a = BitOr(trace.pre.cpu.a, m)
       /\ (Ran("EOR") /\ trace.calls[1] # "IMP") =>
              cpu.a = BitXor(trace.pre.cpu.a, m)

\* C16: a tick that starts with cycles > 0 changes only cycles, by -1: every
\* other field of the CPU and every memory byte is unchanged, and no bus call
\* is issued.
C16_IdleTick ==
    [][(nticks' = nticks + 1 /\ cpu.cycles > 0) =>
          /\ cpu' = [cpu EXCEPT !.cycles = @ - 1]
          /\ bus' = bus
          /\ busLog' = << >>]_vars

C16_Witness ==
    /\ InFlight("ABS", "JSR")
    /\ ~fetchTick
    /\ ticks = 3
    /\ cpu.cycles = 3

\* C17: INX, INY, DEX and DEY leave (old + 1) mod 256 or (old - 1) mod 256 in
\* the named index register, so X and Y stay in 0..255, and change no other
\* register, pc, stkp or memory byte.
C17_IndexStep ==
    LET old == trace.pre.cpu
        OnlyX == cpu.y = old.y
        OnlyY == cpu.x = old.x
        Frame == /\ cpu.a = old.a
                 /\ cpu.stkp = old.stkp
                 /\ cpu.pc = old.pc
                 /\ bus = trace.pre.bus
    IN /\ cpu.x \in 0..255
       /\ cpu.y \in 0..255
       /\ Ran("INX") => cpu.x = (old.x + 1) % 256 /\ OnlyX /\ Frame
       /\ Ran("DEX") => cpu.x = (old.x + 255) % 256 /\ OnlyX /\ Frame
       /\ Ran("INY") => cpu.y = (old.y + 1) % 256 /\ OnlyY /\ Frame
       /\ Ran("DEY") => cpu.y = (old.y + 255) % 256 /\ OnlyY /\ Frame

\* INX wraps 0xFF to 0x00, after DEX wrapped 0x00 to 0xFF.
C17_Witness ==
    /\ Ran("INX")
    /\ trace.pre.cpu.x = \hFF
    /\ cpu.x = \h00

\* C18: over its whole instruction NOP, or the illegal-opcode catch XXX, with
\* implied addressing changes neither A, X, Y, stkp, the status byte nor any
\* memory byte: pc is one past the opcode byte, cycles is the table count less
\* the ticks taken, and the operation returned 0.
C18_NoOperation ==
    (InFlight("IMP", "NOP") \/ InFlight("IMP", "XXX")) =>
        LET old == trace.loaded.cpu
        IN /\ cpu.a = old.a
           /\ cpu.x = old.x
           /\ cpu.y = old.y
           /\ cpu.stkp = old.stkp
           /\ cpu.status = old.status
           /\ bus = trace.loaded.bus
           /\ cpu.pc = (trace.loaded.log[1].addr + 1) % 65536
           /\ cpu.cycles = lookup(cpu.opcode).cycles - ticks
           /\ trace.post.ret = 0

C18_Witness ==
    /\ InFlight("IMP", "NOP")
    /\ ticks = 2
    /\ cpu.cycles = 0
    /\ cpu.pc = \h8061

\* The addresses the last call wrote to.
Written(log) ==
    {log[i].addr : i \in {j \in 1..Len(log) : log[j].op = "write"}}

====
